---- MODULE Spec2Model ----
(***************************************************************************)
(* Deployment orchestration of deploy-neex: Deployer.deploy and the        *)
(* PM2Generator / NginxGenerator / SystemUtils methods it calls.           *)
(*                                                                         *)
(* One run of Deployer.deploy is modelled.  Every external command, file   *)
(* write and port probe has an outcome chosen when it is issued; they are  *)
(* recorded in order in events, the Logger lines in log.                   *)
(***************************************************************************)
EXTENDS Integers, Sequences, FiniteSets, TLC

VARIABLES
    config,     \* DeployConfig handed to deploy
    project,    \* NeexProject handed to deploy
    os,         \* SystemUtils.getOS() of the host
    pc,         \* position of deploy: the step about to run, or Done / Failed
    steps,      \* steps started so far, in order
    files,      \* file system: path -> content
    events,     \* external commands (execa), file writes, timer waits and
                \* port probes of the run, in the order they were issued
    log,        \* Logger lines, in order
    procs,      \* process set held by the supervisor daemon (app names)
    report,     \* console lines of printPostDeploymentInfo
    thrown      \* the error deploy rethrew to its caller, or NoError

vars == <<config, project, os, pc, steps, files, events, log, procs, report, thrown>>

----------------------------------------------------------------------------
(* Bounds and input domains *)

\* ports are drawn from Default..Default+PortSpread
PortSpread == 1

DefaultClientPort == 3000
DefaultServerPort == 8000

ProjectNames == {"neex-app"}
Domains == {"localhost", "example.com"}
\* one of 'npm' | 'yarn' | 'pnpm' | 'bun'; not npm, so that the project's
\* own commands differ from the npm install -g of installPackage
PackageManagers == {"pnpm"}
Environments == {"production"}
OSFamilies == {"linux", "darwin", "windows"}
RootPath == "/srv/app"

ClientPorts == DefaultClientPort .. (DefaultClientPort + PortSpread)
ServerPorts == DefaultServerPort .. (DefaultServerPort + PortSpread)

NoError == "none"

\* content of an environment file the operator put there before the run
OperatorEnv == <<"DATABASE_URL=postgres://operator-secret">>
\* process set left in the supervisor by an earlier deployment
PreviousProcs == {"previous-app"}

----------------------------------------------------------------------------
(* The effects of a run so far, threaded through the helpers below.  exc   *)
(* is the pending exception: once set, the remaining statements of the     *)
(* enclosing try block are skipped.                                        *)

Cur ==
    [files |-> files, events |-> events, log |-> log, procs |-> procs,
     exc |-> NoError]

\* kind: "exec" (arg: the command line), "write" (arg: the path), "sleep"
\* (arg: milliseconds), "probe" (arg: the port; answer: what the host said)
Event(kind, arg, ok, answer) ==
    [kind |-> kind, arg |-> arg, ok |-> ok, answer |-> answer]

Exec(cmd, ok) == Event("exec", cmd, ok, "")
Write(path, ok) == Event("write", path, ok, "")

Running(s) == s.exc = NoError

Throw(s, msg) == IF Running(s) THEN [s EXCEPT !.exc = msg] ELSE s

LogLine(level, msg) == [level |-> level, msg |-> msg]

\* Logger.success / error / warning / info / step
Logger(s, level, msg) ==
    IF Running(s) THEN [s EXCEPT !.log = Append(@, LogLine(level, msg))] ELSE s

ExecaError(cmd) == "Command failed: " \o cmd

\* SystemUtils.checkCommand: execa('which', [command]) with the whole string
\* as one argument; the boolean it returns is found, whether the host has an
\* executable of that name
checkCommand(s, command, found) ==
    IF Running(s)
    THEN [s EXCEPT !.events = Append(@, Exec("which " \o command, found))]
    ELSE s

\* executeCommand that resolves whatever the exit code of the command
executeCommand_NoReject(s, cmd, ok) ==
    IF Running(s) THEN [s EXCEPT !.events = Append(@, Exec(cmd, ok))] ELSE s

\* SystemUtils.executeCommand: throws the command's own error when it fails
executeCommand(s, cmd, ok) ==
    IF Running(s)
    THEN [s EXCEPT !.events = Append(@, Exec(cmd, ok)),
                   !.exc = IF ok THEN NoError ELSE ExecaError(cmd)]
    ELSE s

\* SystemUtils.installPackage(name, true): npm install -g <name>
installPackage(s, packageName, ok) ==
    executeCommand(s, "npm install -g " \o packageName, ok)

WriteError(path) == "EACCES: permission denied, open " \o path

\* SystemUtils.writeFile: ensureDir + fs.writeFile; replaces the whole
\* content, or rejects and leaves the file as it was
writeFile(s, path, content, ok) ==
    IF ~Running(s) THEN s
    ELSE IF ~ok THEN [s EXCEPT !.events = Append(@, Write(path, FALSE)),
                               !.exc = WriteError(path)]
    ELSE [s EXCEPT !.files = [p \in (DOMAIN s.files) \cup {path} |->
                                 IF p = path THEN content ELSE s.files[p]],
                   !.events = Append(@, Write(path, TRUE))]

\* detect-port: the port it returns for a request, by what the host answers
detectPort(port, answer) == IF answer = "free" THEN port ELSE port + 1

\* isPortAvailable whose catch block answers true
isPortAvailable_ErrorIsFree(port, answer) ==
    IF answer = "error" THEN TRUE ELSE detectPort(port, answer) = port

\* SystemUtils.isPortAvailable: a probing error is caught and gives false
isPortAvailable(port, answer) ==
    IF answer = "error" THEN FALSE ELSE detectPort(port, answer) = port

ProbeAnswers == {"free", "taken", "error"}

\* SystemUtils.getOS
getOS == os

----------------------------------------------------------------------------
(* Initial state: a DeployConfig and a NeexProject as the types allow,     *)
(* with at least one subsystem (NeexDetector.detectProject returns null    *)
(* otherwise), before deploy is called, on a host whose supervisor still   *)
(* holds the process set of an earlier deployment.  The project root is    *)
(* either fresh or holds what that deployment left: the environment file   *)
(* the operator filled in and the manifest written then.  The ssl and      *)
(* email fields of DeployConfig are read by no method deploy calls and are *)
(* left out of the run's config.                                           *)

Topologies ==
    {t \in [hasClient : BOOLEAN, hasServer : BOOLEAN] : t.hasClient \/ t.hasServer}

EnvPath == RootPath \o "/.env"

ManifestPath == RootPath \o "/ecosystem.config.js"

\* the manifest an earlier deployment wrote
PreviousManifest ==
    [apps |-> <<[name |-> "previous-app", script |-> "pnpm", args |-> "run start",
                 cwd |-> RootPath, instances |-> 1, autorestart |-> TRUE,
                 watch |-> FALSE, max_memory_restart |-> "1G",
                 env |-> [NODE_ENV |-> "production", PORT |-> DefaultClientPort]]>>]

Init ==
    /\ config \in [projectName : ProjectNames, domain : Domains,
                   clientPort : ClientPorts, serverPort : ServerPorts,
                   packageManager : PackageManagers, environment : Environments,
                   autoStart : BOOLEAN, nginxConfig : BOOLEAN]
    /\ \E t \in Topologies :
          project = [hasClient |-> t.hasClient, hasServer |-> t.hasServer,
                     rootPath |-> RootPath,
                     packageManager |-> config.packageManager]
    /\ os \in OSFamilies
    /\ pc = "Idle"
    /\ steps = << >>
    /\ files \in {<< >>, [p \in {EnvPath, ManifestPath} |->
                                IF p = EnvPath THEN OperatorEnv ELSE PreviousManifest]}
    /\ events = << >>
    /\ log = << >>
    /\ procs = PreviousProcs
    /\ report = << >>
    /\ thrown = NoError

----------------------------------------------------------------------------
(* PM2Generator.  generators/pm2.ts holds two classes of this name; the    *)
(* first (lines 21-154), with delete-all and the guarded startup, is the   *)
(* one modelled.  The second (lines 160-244) differs in start only: no     *)
(* delete-all and no try/catch around pm2 startup.                         *)

\* one PM2AppConfig entry
PM2App(cfg, prj, name, args, port) ==
    [name |-> name, script |-> cfg.packageManager, args |-> args,
     cwd |-> prj.rootPath, instances |-> 1, autorestart |-> TRUE,
     watch |-> FALSE, max_memory_restart |-> "1G",
     env |-> [NODE_ENV |-> cfg.environment, PORT |-> port]]

\* the entry pushed under if (project.hasClient)
ClientApp(cfg, prj) ==
    PM2App(cfg, prj, cfg.projectName \o "-client", "run start:client", cfg.clientPort)

\* the server entry given the client's port
ServerApp_ClientPort(cfg, prj) ==
    PM2App(cfg, prj, cfg.projectName \o "-server", "run start:server", cfg.clientPort)

\* the entry pushed under if (project.hasServer)
ServerApp(cfg, prj) ==
    PM2App(cfg, prj, cfg.projectName \o "-server", "run start:server", cfg.serverPort)

\* PM2Generator.generateEcosystemConfig: apps in push order; the returned
\* text is module.exports = { apps: JSON.stringify(apps) }, which keeps every
\* entry and field in order
generateEcosystemConfig(cfg, prj) ==
    [apps |-> (IF prj.hasClient THEN <<ClientApp(cfg, prj)>> ELSE << >>)
              \o (IF prj.hasServer THEN <<ServerApp(cfg, prj)>> ELSE << >>)]

\* PM2Generator.generate
pm2generate(s, writeOk) ==
    Logger(writeFile(s, ManifestPath, generateEcosystemConfig(config, project), writeOk),
           "success", "PM2 ecosystem.config.js generated")

\* install that runs the global install without looking at the check
pm2install_AlwaysInstall(s, hasPm2, installOk) ==
    LET s1 == checkCommand(s, "pm2", hasPm2)
    IN  Logger(installPackage(Logger(s1, "step", "Installing PM2 globally..."),
                              "pm2", installOk),
               "success", "PM2 installed")

\* PM2Generator.install
pm2install(s, hasPm2, installOk) ==
    LET s1 == checkCommand(s, "pm2", hasPm2)
    IN  IF ~hasPm2
        THEN Logger(installPackage(Logger(s1, "step", "Installing PM2 globally..."),
                                   "pm2", installOk),
                    "success", "PM2 installed")
        ELSE Logger(s1, "success", "PM2 already installed")

\* what the supervisor daemon holds after `pm2 delete all`
pm2DeleteAll(s, ok) ==
    LET s1 == executeCommand(s, "pm2 delete all", ok)
    IN  IF Running(s) /\ ok THEN [s1 EXCEPT !.procs = {}] ELSE s1

\* a load-manifest that brings the earlier process set back when it fails
pm2StartManifest_RestoreOnFailure(s, ok) ==
    LET s1 == executeCommand(s, "pm2 start ecosystem.config.js", ok)
        apps == IF ManifestPath \in DOMAIN s.files
                THEN s.files[ManifestPath].apps ELSE << >>
    IN  IF Running(s) /\ ok
        THEN [s1 EXCEPT !.procs = @ \cup {apps[i].name : i \in DOMAIN apps}]
        ELSE IF Running(s) THEN [s1 EXCEPT !.procs = PreviousProcs]
        ELSE s1

\* what the supervisor daemon holds after `pm2 start ecosystem.config.js`:
\* the apps of the manifest file on disk, next to what it already held
pm2StartManifest(s, ok) ==
    LET s1 == executeCommand(s, "pm2 start ecosystem.config.js", ok)
        apps == IF ManifestPath \in DOMAIN s.files
                THEN s.files[ManifestPath].apps ELSE << >>
    IN  IF Running(s) /\ ok
        THEN [s1 EXCEPT !.procs = @ \cup {apps[i].name : i \in DOMAIN apps}]
        ELSE s1

AutoStartWarning ==
    "Could not configure PM2 auto-startup. You may need to run this manually with sudo."

\* the autoStart block without the inner try/catch
pm2startup_NoCatch(s, startupOk) ==
    IF ~config.autoStart \/ ~Running(s) THEN s
    ELSE executeCommand(s, "pm2 startup", startupOk)

\* the if (config.autoStart) block of PM2Generator.start
pm2startup(s, startupOk) ==
    IF ~config.autoStart \/ ~Running(s) THEN s
    ELSE LET s1 == executeCommand(s, "pm2 startup", startupOk)
         IN  IF Running(s1)
             THEN Logger(s1, "success", "PM2 auto-startup configured")
             ELSE Logger([s1 EXCEPT !.exc = NoError], "warning", AutoStartWarning)

\* start that persists the process list before it loads the manifest
pm2start_SaveBeforeLoad(s, delOk, startOk, saveOk, startupOk) ==
    LET s1 == Logger(s, "step", "Starting PM2 applications...")
        s2 == [pm2DeleteAll(s1, delOk) EXCEPT !.exc = s1.exc]
        s3 == executeCommand(s2, "pm2 save", saveOk)
        s4 == pm2StartManifest(s3, startOk)
        s5 == pm2startup(s4, startupOk)
        s6 == Logger(s5, "success", "PM2 applications started")
    IN  IF Running(s) /\ ~Running(s6)
        THEN [s6 EXCEPT !.log = Append(@, LogLine("error",
                              "Failed to start PM2 applications: " \o s6.exc))]
        ELSE s6

\* start without the .catch on delete all
pm2start_DeleteFatal(s, delOk, startOk, saveOk, startupOk) ==
    LET s1 == Logger(s, "step", "Starting PM2 applications...")
        s2 == pm2DeleteAll(s1, delOk)
        s3 == pm2StartManifest(s2, startOk)
        s4 == executeCommand(s3, "pm2 save", saveOk)
        s5 == pm2startup(s4, startupOk)
        s6 == Logger(s5, "success", "PM2 applications started")
    IN  IF Running(s) /\ ~Running(s6)
        THEN [s6 EXCEPT !.log = Append(@, LogLine("error",
                              "Failed to start PM2 applications: " \o s6.exc))]
        ELSE s6

\* PM2Generator.start
pm2start(s, delOk, startOk, saveOk, startupOk) ==
    LET s1 == Logger(s, "step", "Starting PM2 applications...")
        \* .catch(() => {}) on delete all
        s2 == [pm2DeleteAll(s1, delOk) EXCEPT !.exc = s1.exc]
        s3 == pm2StartManifest(s2, startOk)
        s4 == executeCommand(s3, "pm2 save", saveOk)
        s5 == pm2startup(s4, startupOk)
        s6 == Logger(s5, "success", "PM2 applications started")
    IN  IF Running(s) /\ ~Running(s6)
        THEN [s6 EXCEPT !.log = Append(@, LogLine("error",
                              "Failed to start PM2 applications: " \o s6.exc))]
        ELSE s6

----------------------------------------------------------------------------
(* NginxGenerator *)

Directive(kind, name, arg) == [kind |-> kind, name |-> name, arg |-> arg]

clientUpstream(cfg, prj) ==
    IF prj.hasClient
    THEN <<Directive("upstream", "client_backend",
                     "localhost:" \o ToString(cfg.clientPort))>>
    ELSE << >>

\* the server upstream block emitted whatever the topology says
serverUpstream_Always(cfg, prj) ==
    <<Directive("upstream", "server_backend",
                "localhost:" \o ToString(cfg.serverPort))>>

serverUpstream(cfg, prj) ==
    IF prj.hasServer
    THEN <<Directive("upstream", "server_backend",
                     "localhost:" \o ToString(cfg.serverPort))>>
    ELSE << >>

clientLocation(cfg, prj) ==
    IF prj.hasClient
    THEN <<Directive("location", "/", "http://client_backend")>>
    ELSE << >>

serverLocation(cfg, prj) ==
    IF prj.hasServer
    THEN <<Directive("location", "/api/", "http://server_backend/")>>
    ELSE << >>

StaticPattern == "~* \\.(js|css|png|jpg|jpeg|gif|ico|svg|woff|woff2|ttf|eot)$"

\* the document whose static-asset rule passes to the client whatever the
\* topology says
generateNginxConfig_StaticAlwaysProxies(cfg, prj) ==
    clientUpstream(cfg, prj) \o serverUpstream(cfg, prj)
    \o <<Directive("server", "listen", "80"),
         Directive("server_name", cfg.domain, "www." \o cfg.domain),
         Directive("client_max_body_size", "", "100M"),
         Directive("add_header", "security", "always")>>
    \o serverLocation(cfg, prj) \o clientLocation(cfg, prj)
    \o <<Directive("location", StaticPattern, "http://client_backend"),
         Directive("gzip", "", "on")>>

\* the document with ${clientLocation}${serverLocation} in the server block
generateNginxConfig_ClientFirst(cfg, prj) ==
    clientUpstream(cfg, prj) \o serverUpstream(cfg, prj)
    \o <<Directive("server", "listen", "80"),
         Directive("server_name", cfg.domain, "www." \o cfg.domain),
         Directive("client_max_body_size", "", "100M"),
         Directive("add_header", "security", "always")>>
    \o clientLocation(cfg, prj) \o serverLocation(cfg, prj)
    \o <<Directive("location", StaticPattern,
                   IF prj.hasClient THEN "http://client_backend" ELSE ""),
         Directive("gzip", "", "on")>>

\* NginxGenerator.generateNginxConfig: the directives of the document in
\* the order of the returned text
generateNginxConfig(cfg, prj) ==
    clientUpstream(cfg, prj) \o serverUpstream(cfg, prj)
    \o <<Directive("server", "listen", "80"),
         Directive("server_name", cfg.domain, "www." \o cfg.domain),
         Directive("client_max_body_size", "", "100M"),
         Directive("add_header", "security", "always")>>
    \o serverLocation(cfg, prj) \o clientLocation(cfg, prj)
    \o <<Directive("location", StaticPattern,
                   IF prj.hasClient THEN "http://client_backend" ELSE ""),
         Directive("gzip", "", "on")>>

\* getConfigPath that tests for linux and sends every other family to the
\* darwin path
getConfigPath_LinuxOnly(cfg) ==
    IF getOS = "linux"
    THEN "/etc/nginx/sites-available/" \o cfg.projectName
    ELSE "/usr/local/etc/nginx/servers/" \o cfg.projectName \o ".conf"

\* NginxGenerator.getConfigPath
getConfigPath(cfg) ==
    IF getOS = "darwin"
    THEN "/usr/local/etc/nginx/servers/" \o cfg.projectName \o ".conf"
    ELSE "/etc/nginx/sites-available/" \o cfg.projectName

InstructionsPath == RootPath \o "/nginx-setup.md"

\* NginxGenerator.generateSetupInstructions: the lines that depend on the input
generateSetupInstructions(cfg) ==
    <<"# Nginx Setup Instructions",
      "sudo cp " \o getConfigPath(cfg) \o " /etc/nginx/sites-available/" \o cfg.projectName,
      "sudo ln -s /etc/nginx/sites-available/" \o cfg.projectName
          \o " /etc/nginx/sites-enabled/",
      "sudo nginx -t",
      "sudo certbot --nginx -d " \o cfg.domain,
      "Your site will be available at: http://" \o cfg.domain>>

\* NginxGenerator.generate
nginxgenerate(s, confOk, notesOk) ==
    LET s1 == writeFile(s, getConfigPath(config), generateNginxConfig(config, project), confOk)
        s2 == Logger(s1, "success", "Nginx configuration generated at " \o getConfigPath(config))
        s3 == writeFile(s2, InstructionsPath, generateSetupInstructions(config), notesOk)
    IN  Logger(s3, "info", "Check nginx-setup.md for manual setup steps")

\* install that installs the missing binary itself, the way PM2Generator does
nginxinstall_AutoInstall(s, hasNginx) ==
    LET s1 == checkCommand(s, "nginx", hasNginx)
    IN  IF ~hasNginx
        THEN Logger(executeCommand(s1, "sudo apt install nginx", TRUE),
                    "success", "Nginx installed")
        ELSE Logger(s1, "success", "Nginx already installed")

\* NginxGenerator.install
nginxinstall(s, hasNginx) ==
    LET s1 == checkCommand(s, "nginx", hasNginx)
        s2 == Logger(s1, "warning", "Nginx is not installed. Please install it manually:")
        s3 == IF getOS = "linux"
              THEN Logger(Logger(s2, "info", "Ubuntu/Debian: sudo apt install nginx"),
                          "info", "CentOS/RHEL: sudo yum install nginx")
              ELSE IF getOS = "darwin"
              THEN Logger(s2, "info", "macOS: brew install nginx")
              ELSE s2
    IN  IF ~hasNginx
        THEN Throw(s3, "Nginx installation required")
        ELSE Logger(s1, "success", "Nginx already installed")

----------------------------------------------------------------------------
(* Deployer: the private methods deploy awaits, one per step *)

\* checkPrerequisites that only warns about what it does not find
checkPrerequisites_WarnOnly(s, nodeOk, pmOk) ==
    LET s1 == Logger(s, "step", "Checking prerequisites...")
        s2 == checkCommand(s1, "node", nodeOk)
        s3 == IF nodeOk THEN s2 ELSE Logger(s2, "warning", "Node.js is not installed")
        s4 == checkCommand(s3, project.packageManager, pmOk)
        s5 == IF pmOk THEN s4
              ELSE Logger(s4, "warning", project.packageManager \o " is not installed")
    IN  Logger(s5, "success", "Prerequisites checked")

\* Deployer.checkPrerequisites
checkPrerequisites(s, nodeOk, pmOk) ==
    LET s1 == Logger(s, "step", "Checking prerequisites...")
        s2 == checkCommand(s1, "node", nodeOk)
        s3 == IF nodeOk THEN s2 ELSE Throw(s2, "Node.js is not installed")
        s4 == checkCommand(s3, project.packageManager, pmOk)
        s5 == IF pmOk THEN s4
              ELSE Throw(s4, project.packageManager \o " is not installed")
    IN  Logger(s5, "success", "Prerequisites checked")

\* Deployer.buildProject (the spinner only draws on the terminal)
buildProject(s, installOk, buildOk) ==
    LET s1 == Logger(s, "step", "Building project...")
        s2 == executeCommand(s1, project.packageManager \o " install", installOk)
        s3 == executeCommand(s2, project.packageManager \o " run build", buildOk)
    IN  Logger(s3, "success", "Project built successfully")

\* the envContent template of generateEnvironment
envContent(cfg) ==
    <<"NODE_ENV=" \o cfg.environment,
      "DATABASE_URL=\"your-database-connection-string\"",
      "PORT_CLIENT=" \o ToString(cfg.clientPort),
      "PORT_SERVER=" \o ToString(cfg.serverPort),
      "# Add your other environment variables here">>

\* Deployer.generateEnvironment: envExists is what
\* checkCommand(`test -f ${envPath}`) returned, that is whether `which` found
\* an executable of that name
generateEnvironment(s, envExists, writeOk) ==
    LET envPath == project.rootPath \o "/.env"
        s1 == checkCommand(s, "test -f " \o envPath, envExists)
    IN  IF ~envExists
        THEN Logger(Logger(writeFile(s1, envPath, envContent(config), writeOk),
                           "success", ".env file created"),
                    "warning", "Please update .env with your actual values")
        ELSE Logger(s1, "success", ".env file already exists")

\* setupPM2 that starts the supervisor before it writes the manifest
setupPM2_StartBeforeGenerate(s, hasPm2, installOk, writeOk, delOk, startOk, saveOk, startupOk) ==
    LET s1 == Logger(s, "step", "Setting up PM2...")
        s2 == pm2install(s1, hasPm2, installOk)
        s3 == pm2start(s2, delOk, startOk, saveOk, startupOk)
    IN  pm2generate(s3, writeOk)

\* Deployer.setupPM2
setupPM2(s, hasPm2, installOk, writeOk, delOk, startOk, saveOk, startupOk) ==
    LET s1 == Logger(s, "step", "Setting up PM2...")
        s2 == pm2install(s1, hasPm2, installOk)
        s3 == pm2generate(s2, writeOk)
    IN  pm2start(s3, delOk, startOk, saveOk, startupOk)

\* setupNginx without its try/catch
setupNginx_NoCatch(s, hasNginx, confOk, notesOk) ==
    nginxgenerate(nginxinstall(Logger(s, "step", "Setting up Nginx..."), hasNginx),
                  confOk, notesOk)

\* Deployer.setupNginx: whatever install or generate throws becomes a warning
setupNginx(s, hasNginx, confOk, notesOk) ==
    LET s1 == Logger(s, "step", "Setting up Nginx...")
        s2 == nginxgenerate(nginxinstall(s1, hasNginx), confOk, notesOk)
    IN  IF Running(s1) /\ ~Running(s2)
        THEN Logger([s2 EXCEPT !.exc = NoError], "warning",
                    "Nginx setup requires manual intervention: " \o s2.exc)
        ELSE s2

statusScript(cfg) ==
    <<"#!/bin/bash", "pm2 status", "pm2 logs --lines 20",
      "netstat -tulpn | grep -E \":(" \o ToString(cfg.clientPort) \o "|"
          \o ToString(cfg.serverPort) \o "|80|443)\" || true",
      "df -h", "free -h 2>/dev/null || top -l 1 | grep -E \"^(Processes|PhysMem)\"">>

restartScript == <<"#!/bin/bash", "pm2 restart all">>

\* Deployer.createManagementScripts
createManagementScripts(s, statusOk, chmodStatusOk, restartOk, chmodRestartOk) ==
    LET s1 == Logger(s, "step", "Creating management scripts...")
        s2 == writeFile(s1, project.rootPath \o "/status.sh", statusScript(config), statusOk)
        s3 == executeCommand(s2, "chmod +x status.sh", chmodStatusOk)
        s4 == writeFile(s3, project.rootPath \o "/restart.sh", restartScript, restartOk)
        s5 == executeCommand(s4, "chmod +x restart.sh", chmodRestartOk)
    IN  Logger(s5, "success", "Management scripts created")

SettleDelay == 3000

\* the port check with the branches of if (available) exchanged
checkPort_Inverted(s, who, port, answer) ==
    LET s1 == [s EXCEPT !.events = Append(@, Event("probe", ToString(port),
                                                   answer # "error", answer))]
    IN  IF ~isPortAvailable(port, answer)
        THEN Logger(s1, "warning", who \o " port " \o ToString(port)
                        \o " seems to be available (service might not be running)")
        ELSE Logger(s1, "success", who \o " is running on port " \o ToString(port))

\* one await this.system.isPortAvailable(port) and the line logged on its result
checkPort(s, who, port, answer) ==
    LET s1 == [s EXCEPT !.events = Append(@, Event("probe", ToString(port),
                                                   answer # "error", answer))]
    IN  IF isPortAvailable(port, answer)
        THEN Logger(s1, "warning", who \o " port " \o ToString(port)
                        \o " seems to be available (service might not be running)")
        ELSE Logger(s1, "success", who \o " is running on port " \o ToString(port))

\* performFinalChecks without the tests of project.hasClient / hasServer
performFinalChecks_BothPorts(s, clientAnswer, serverAnswer) ==
    LET s1 == Logger(s, "step", "Performing final checks...")
        s2 == [s1 EXCEPT !.events = Append(@, Event("sleep", ToString(SettleDelay),
                                                   TRUE, ""))]
        s3 == checkPort(s2, "Client", config.clientPort, clientAnswer)
    IN  checkPort(s3, "Server", config.serverPort, serverAnswer)

\* Deployer.performFinalChecks
performFinalChecks(s, clientAnswer, serverAnswer) ==
    LET s1 == Logger(s, "step", "Performing final checks...")
        s2 == [s1 EXCEPT !.events = Append(@, Event("sleep", ToString(SettleDelay),
                                                   TRUE, ""))]
        s3 == IF project.hasClient
              THEN checkPort(s2, "Client", config.clientPort, clientAnswer) ELSE s2
    IN  IF project.hasServer
        THEN checkPort(s3, "Server", config.serverPort, serverAnswer) ELSE s3

\* the report with the Public line printed whatever the domain is
printPostDeploymentInfo_AlwaysPublic(cfg, prj) ==
    <<"DEPLOYMENT COMPLETED SUCCESSFULLY!">>
    \o (IF prj.hasClient
        THEN <<"Frontend: http://localhost:" \o ToString(cfg.clientPort)>> ELSE << >>)
    \o (IF prj.hasServer
        THEN <<"Backend:  http://localhost:" \o ToString(cfg.serverPort)>> ELSE << >>)
    \o <<"Public:   http://" \o cfg.domain>>
    \o <<"1. Update .env file with your actual values">>
    \o (IF cfg.nginxConfig
        THEN <<"2. Follow nginx-setup.md for Nginx configuration",
               "3. Setup SSL certificate for production">>
        ELSE << >>)
    \o <<"4. Configure your firewall to allow HTTP/HTTPS traffic">>

\* Deployer.printPostDeploymentInfo: the console lines that depend on the input
printPostDeploymentInfo(cfg, prj) ==
    <<"DEPLOYMENT COMPLETED SUCCESSFULLY!">>
    \o (IF prj.hasClient
        THEN <<"Frontend: http://localhost:" \o ToString(cfg.clientPort)>> ELSE << >>)
    \o (IF prj.hasServer
        THEN <<"Backend:  http://localhost:" \o ToString(cfg.serverPort)>> ELSE << >>)
    \o (IF cfg.domain # "localhost"
        THEN <<"Public:   http://" \o cfg.domain>> ELSE << >>)
    \o <<"1. Update .env file with your actual values">>
    \o (IF cfg.nginxConfig
        THEN <<"2. Follow nginx-setup.md for Nginx configuration",
               "3. Setup SSL certificate for production">>
        ELSE << >>)
    \o <<"4. Configure your firewall to allow HTTP/HTTPS traffic">>

----------------------------------------------------------------------------
(* Deployer.deploy: the try block awaits the steps one after the other; an *)
(* action below is one awaited step together with what deploy does when    *)
(* it returns or throws.                                                   *)

\* NextStep with the proxy step awaited whatever config.nginxConfig says
NextStep_AlwaysProxy(step) ==
    CASE step = "CheckPrerequisites" -> "Build"
      [] step = "Build" -> "MaterializeEnvironment"
      [] step = "MaterializeEnvironment" -> "SetupSupervisor"
      [] step = "SetupSupervisor" -> "SetupProxy"
      [] step = "SetupProxy" -> "GenerateManagementScripts"
      [] step = "GenerateManagementScripts" -> "VerifyDeployment"
      [] step = "VerifyDeployment" -> "Done"

\* NextStep with the test of config.nginxConfig negated
NextStep_InvertedFlag(step) ==
    CASE step = "CheckPrerequisites" -> "Build"
      [] step = "Build" -> "MaterializeEnvironment"
      [] step = "MaterializeEnvironment" -> "SetupSupervisor"
      [] step = "SetupSupervisor" ->
            IF ~config.nginxConfig THEN "SetupProxy" ELSE "GenerateManagementScripts"
      [] step = "SetupProxy" -> "GenerateManagementScripts"
      [] step = "GenerateManagementScripts" -> "VerifyDeployment"
      [] step = "VerifyDeployment" -> "Done"

\* the step deploy awaits after `step` has returned
NextStep(step) ==
    CASE step = "CheckPrerequisites" -> "Build"
      [] step = "Build" -> "MaterializeEnvironment"
      [] step = "MaterializeEnvironment" -> "SetupSupervisor"
      [] step = "SetupSupervisor" ->
            IF config.nginxConfig THEN "SetupProxy" ELSE "GenerateManagementScripts"
      [] step = "SetupProxy" -> "GenerateManagementScripts"
      [] step = "GenerateManagementScripts" -> "VerifyDeployment"
      [] step = "VerifyDeployment" -> "Done"

SuccessLine == LogLine("success", "Deployment completed successfully!")

\* a catch block that logs the error and does not rethrow it
DeployCatch_Swallow(s) ==
    /\ log' = Append(s.log, LogLine("error", "Deployment failed: " \o s.exc))
    /\ thrown' = thrown
    /\ pc' = "Failed"
    /\ report' = report

\* a catch block that throws a new generic error in place of the one caught
DeployCatch_Generic(s) ==
    /\ log' = Append(s.log, LogLine("error", "Deployment failed: " \o s.exc))
    /\ thrown' = "Deployment failed"
    /\ pc' = "Failed"
    /\ report' = report

\* the catch block of deploy: log the message, rethrow the same error
\* (a non-Error value is logged through String(error))
DeployCatch(s) ==
    /\ log' = Append(s.log, LogLine("error", "Deployment failed: " \o s.exc))
    /\ thrown' = s.exc
    /\ pc' = "Failed"
    /\ report' = report

\* after the last step: the success line and printPostDeploymentInfo
DeploySuccess(s) ==
    /\ log' = Append(s.log, SuccessLine)
    /\ report' = printPostDeploymentInfo(config, project)
    /\ pc' = "Done"
    /\ thrown' = thrown

\* deploy after the awaited step left the effects s
Await(step, s) ==
    /\ pc = step
    /\ steps' = Append(steps, step)
    /\ files' = s.files
    /\ events' = s.events
    /\ procs' = s.procs
    /\ IF ~Running(s) THEN DeployCatch(s)
       ELSE IF NextStep(step) = "Done" THEN DeploySuccess(s)
       ELSE /\ log' = s.log
            /\ pc' = NextStep(step)
            /\ UNCHANGED <<report, thrown>>
    /\ UNCHANGED <<config, project, os>>

\* deploy is called: the first logger line
DeployStart ==
    /\ pc = "Idle"
    /\ pc' = "CheckPrerequisites"
    /\ log' = Append(log, LogLine("info", "Starting deployment of " \o config.projectName))
    /\ UNCHANGED <<config, project, os, steps, files, events, procs, report, thrown>>

StepCheckPrerequisites ==
    \E nodeOk, pmOk \in BOOLEAN :
        Await("CheckPrerequisites", checkPrerequisites(Cur, nodeOk, pmOk))

StepBuild ==
    \E installOk, buildOk \in BOOLEAN :
        Await("Build", buildProject(Cur, installOk, buildOk))

StepMaterializeEnvironment ==
    \E envExists, writeOk \in BOOLEAN :
        Await("MaterializeEnvironment", generateEnvironment(Cur, envExists, writeOk))

StepSetupSupervisor ==
    \E hasPm2, installOk, writeOk, delOk, startOk, saveOk, startupOk \in BOOLEAN :
        Await("SetupSupervisor",
              setupPM2(Cur, hasPm2, installOk, writeOk, delOk, startOk, saveOk, startupOk))

StepSetupProxy ==
    \E hasNginx, confOk, notesOk \in BOOLEAN :
        Await("SetupProxy", setupNginx(Cur, hasNginx, confOk, notesOk))

StepGenerateManagementScripts ==
    \E statusOk, chmodStatusOk, restartOk, chmodRestartOk \in BOOLEAN :
        Await("GenerateManagementScripts",
              createManagementScripts(Cur, statusOk, chmodStatusOk, restartOk, chmodRestartOk))

StepVerifyDeployment ==
    \E clientAnswer, serverAnswer \in ProbeAnswers :
        Await("VerifyDeployment", performFinalChecks(Cur, clientAnswer, serverAnswer))

Next ==
    \/ DeployStart
    \/ StepCheckPrerequisites
    \/ StepBuild
    \/ StepMaterializeEnvironment
    \/ StepSetupSupervisor
    \/ StepSetupProxy
    \/ StepGenerateManagementScripts
    \/ StepVerifyDeployment

Spec == Init /\ [][Next]_vars

\* the runs whose termination is checked: a fresh project root on linux with
\* the detected ports and the default domain, for every topology and every
\* value of nginxConfig and autoStart (the steps a run takes depend on no
\* other input)
FairInit ==
    /\ Init
    /\ os = "linux" /\ files = << >>
    /\ config.domain = "localhost"
    /\ config.clientPort = DefaultClientPort /\ config.serverPort = DefaultServerPort

\* every await of deploy settles: the command, write, timer or probe a step
\* waits for returns or fails, so a step that can be taken is taken
FairSpec == FairInit /\ [][Next]_vars /\ WF_vars(Next)

----------------------------------------------------------------------------
(* cli.ts: the action of the deploy command up to its call of              *)
(* Deployer.deploy.  commander turns the command line into the options     *)
(* object: a flag declared --no-nginx or --no-ssl is stored under          *)
(* options.nginx or options.ssl (true unless the flag is given), and       *)
(* nothing is ever stored under options.noNginx or options.noSsl, the      *)
(* properties the action and promptForConfig read.                         *)

\* what the operator typed: -y or not, --domain <d> ("" when not given),
\* --no-nginx or not, --no-ssl or not
CommandLines ==
    [yes : BOOLEAN, domain : {"", "example.com"}, noNginx : BOOLEAN, noSsl : BOOLEAN]

\* the options object commander builds from the .option() declarations
parseOptions(argv) ==
    LET keys == {"nginx", "ssl"} \cup (IF argv.yes THEN {"yes"} ELSE {})
                    \cup (IF argv.domain # "" THEN {"domain"} ELSE {})
    IN  [k \in keys |-> CASE k = "nginx" -> ~argv.noNginx
                          [] k = "ssl" -> ~argv.noSsl
                          [] k = "yes" -> TRUE
                          [] k = "domain" -> argv.domain]

\* !obj.key, for a property that holds a boolean or was never set
Not(obj, key) == IF key \in DOMAIN obj THEN ~obj[key] ELSE TRUE

\* options.domain || 'localhost'
domainOrLocalhost(options) ==
    IF "domain" \in DOMAIN options /\ options["domain"] # ""
    THEN options["domain"] ELSE "localhost"

\* what detectProject returns instead of a project
NullProject == [null |-> TRUE]

\* detectProject without the test if (!hasClient && !hasServer)
detectProject_NoTopologyTest(hasPackageJson, isNeexProject, hasClient, hasServer, packageManager) ==
    IF ~hasPackageJson
    THEN [project |-> NullProject,
          log |-> <<LogLine("error", "package.json not found. Are you in a Node.js project?")>>]
    ELSE IF ~isNeexProject
    THEN [project |-> NullProject,
          log |-> <<LogLine("error", "This doesn't appear to be a Neex project.")>>]
    ELSE [project |-> [hasClient |-> hasClient, hasServer |-> hasServer,
                       rootPath |-> RootPath, packageManager |-> packageManager],
          log |-> <<LogLine("success", "Detected Neex project with " \o packageManager)>>]

\* NeexDetector.detectProject, by what it finds in the working directory
detectProject(hasPackageJson, isNeexProject, hasClient, hasServer, packageManager) ==
    IF ~hasPackageJson
    THEN [project |-> NullProject,
          log |-> <<LogLine("error", "package.json not found. Are you in a Node.js project?")>>]
    ELSE IF ~isNeexProject
    THEN [project |-> NullProject,
          log |-> <<LogLine("error", "This doesn't appear to be a Neex project.")>>]
    ELSE IF ~hasClient /\ ~hasServer
    THEN [project |-> NullProject,
          log |-> <<LogLine("error", "No client or server found in apps/ directory.")>>]
    ELSE [project |-> [hasClient |-> hasClient, hasServer |-> hasServer,
                       rootPath |-> RootPath, packageManager |-> packageManager],
          log |-> <<LogLine("success", "Detected Neex project with " \o packageManager)>>]

\* NeexDetector.detectPorts: found is the port number matched in the server's
\* scripts or server.ts, DefaultServerPort when nothing matches
detectPorts(prj, found) ==
    [clientPort |-> DefaultClientPort,
     serverPort |-> IF prj.hasServer THEN found ELSE DefaultServerPort]

\* the config literal of the if (options.yes) branch; it has no email
defaultsConfig(prj, ports, options) ==
    [projectName |-> "neex-app",
     domain |-> domainOrLocalhost(options),
     ssl |-> Not(options, "noSsl"),
     clientPort |-> ports.clientPort,
     serverPort |-> ports.serverPort,
     packageManager |-> prj.packageManager,
     environment |-> "production",
     autoStart |-> TRUE,
     nginxConfig |-> Not(options, "noNginx")]

MaxPort == 65535

\* parseInt on the decimal strings the model enters
parseInt(str) == CHOOSE n \in {0} \cup ClientPorts \cup ServerPorts : ToString(n) = str

\* the strings matched by /^[a-zA-Z0-9-_]+$/, of the ones the model enters
validProjectName(input) == input \in {"neex-app"}

\* the strings matched by /^[^\s@]+@[^\s@]+\.[^\s@]+$/, of the ones the model enters
validEmail(input) == input \in {"ops@example.com"}

validPort(input) == parseInt(input) >= 1 /\ parseInt(input) <= MaxPort

\* an input prompt: the default when the operator just presses enter
inputPrompt(typed, default) == IF typed = "" THEN default ELSE typed

\* a confirm prompt
confirmPrompt(typed, default) == IF typed = "" THEN default ELSE typed = "y"

\* what the operator types at the prompts (the prompt of a question that is
\* not asked reads nothing)
Typed ==
    [projectName : {"", "my app"}, domain : {"", "localhost", "example.com", " "},
     environment : Environments, nginxConfig : {"", "n"}, ssl : {"", "n"},
     email : {"", "ops@example.com", "ops-at-example.com"},
     clientPort : {"", "0", ToString(DefaultClientPort + PortSpread)},
     serverPort : {"", ToString(DefaultServerPort + PortSpread)},
     autoStart : {"", "n"}]

\* the answers object of inquirer.prompt: a question whose when() is false
\* leaves no property
Answers(prj, clientPort, serverPort, options, typed) ==
    LET projectName == inputPrompt(typed.projectName, "neex-app")
        domain == inputPrompt(typed.domain, domainOrLocalhost(options))
        nginxConfig == confirmPrompt(typed.nginxConfig, Not(options, "noNginx"))
        sslAsked == nginxConfig /\ domain # "localhost"
        ssl == sslAsked /\ confirmPrompt(typed.ssl, Not(options, "noSsl"))
    IN  [projectName |-> projectName, domain |-> domain,
         environment |-> typed.environment, nginxConfig |-> nginxConfig,
         sslAsked |-> sslAsked, ssl |-> ssl,
         emailAsked |-> ssl, email |-> typed.email,
         clientPort |-> inputPrompt(typed.clientPort, ToString(clientPort)),
         serverPort |-> inputPrompt(typed.serverPort, ToString(serverPort)),
         autoStart |-> confirmPrompt(typed.autoStart, TRUE)]

\* every validate() of a question that was asked returned true (inquirer asks
\* again until it does)
Validated(prj, answers) ==
    /\ validProjectName(answers.projectName)
    /\ answers.domain \notin {"", " "}
    /\ answers.emailAsked => validEmail(answers.email)
    /\ prj.hasClient => validPort(answers.clientPort)
    /\ prj.hasServer => validPort(answers.serverPort)

\* the object promptForConfig returns; email is undefined (no property)
\* unless the email question was asked
promptForConfig(prj, clientPort, serverPort, answers) ==
    LET base == [projectName |-> answers.projectName,
                 domain |-> answers.domain,
                 ssl |-> answers.sslAsked /\ answers.ssl,
                 clientPort |-> IF prj.hasClient THEN parseInt(answers.clientPort)
                                ELSE clientPort,
                 serverPort |-> IF prj.hasServer THEN parseInt(answers.serverPort)
                                ELSE serverPort,
                 packageManager |-> prj.packageManager,
                 environment |-> answers.environment,
                 autoStart |-> answers.autoStart,
                 nginxConfig |-> answers.nginxConfig]
    IN  IF answers.emailAsked
        THEN [k \in DOMAIN base \cup {"email"} |->
                 IF k = "email" THEN answers.email ELSE base[k]]
        ELSE base

NoConfig == [unset |-> TRUE]

\* the deploy command starts: nothing detected, no config yet
CliInit ==
    /\ config = NoConfig
    /\ project = NullProject
    /\ os \in OSFamilies
    /\ pc = "Cli"
    /\ steps = << >>
    /\ files = << >>
    /\ events = << >>
    /\ log = << >>
    /\ procs = PreviousProcs
    /\ report = << >>
    /\ thrown = NoError

\* const project = await detector.detectProject(); if (!project) process.exit(1)
CliDetectProject ==
    /\ pc = "Cli"
    /\ \E hasPackageJson, isNeexProject, hasClient, hasServer \in BOOLEAN :
       \E packageManager \in PackageManagers :
          LET r == detectProject(hasPackageJson, isNeexProject, hasClient, hasServer,
                                 packageManager)
          IN  /\ project' = r.project
              /\ log' = log \o r.log
              /\ pc' = IF r.project = NullProject THEN "Exited" ELSE "Configure"
    /\ UNCHANGED <<config, os, steps, files, events, procs, report, thrown>>

\* the if (options.yes) branch: deploy is about to be called with the defaults
CliUseDefaults ==
    /\ pc = "Configure"
    /\ \E argv \in CommandLines : \E found \in ServerPorts :
          LET options == parseOptions(argv)
          IN  /\ "yes" \in DOMAIN options
              /\ config' = defaultsConfig(project, detectPorts(project, found), options)
    /\ pc' = "Idle"
    /\ UNCHANGED <<project, os, steps, files, events, log, procs, report, thrown>>

\* the else branch: deploy is about to be called with what promptForConfig returned
CliPrompt ==
    /\ pc = "Configure"
    /\ \E argv \in CommandLines : \E found \in ServerPorts : \E typed \in Typed :
          LET options == parseOptions(argv)
              ports == detectPorts(project, found)
              answers == Answers(project, ports.clientPort, ports.serverPort,
                                 options, typed)
          IN  /\ "yes" \notin DOMAIN options
              /\ Validated(project, answers)
              /\ config' = promptForConfig(project, ports.clientPort, ports.serverPort,
                                           answers)
    /\ pc' = "Idle"
    /\ UNCHANGED <<project, os, steps, files, events, log, procs, report, thrown>>

CliNext ==
    \/ CliDetectProject
    \/ CliUseDefaults
    \/ CliPrompt

CliSpec == CliInit /\ [][CliNext]_vars

----------------------------------------------------------------------------
(* Properties *)

IsPrefix(a, b) == Len(a) <= Len(b) /\ \A i \in DOMAIN a : a[i] = b[i]

\* the step list of the pipeline for the run's configuration
ExpectedSteps ==
    <<"CheckPrerequisites", "Build", "MaterializeEnvironment", "SetupSupervisor">>
    \o (IF config.nginxConfig THEN <<"SetupProxy">> ELSE << >>)
    \o <<"GenerateManagementScripts", "VerifyDeployment">>

Terminal == pc \in {"Done", "Failed"}

\* C1: the steps started so far are always an initial part of the fixed list
\* CheckPrerequisites, Build, MaterializeEnvironment, SetupSupervisor,
\* SetupProxy (only when enabled), GenerateManagementScripts,
\* VerifyDeployment, each once and in this order; the step deploy is about
\* to await is the next of the list, and Done is reached after the whole list.
C1_StepsInFixedOrder ==
    /\ IsPrefix(steps, ExpectedSteps)
    /\ pc = "Idle" => steps = << >>
    /\ pc = "Done" => steps = ExpectedSteps
    /\ ~Terminal /\ pc # "Idle" => /\ Len(steps) < Len(ExpectedSteps)
                                   /\ pc = ExpectedSteps[Len(steps) + 1]

C1_Witness ==
    pc = "Done" /\ config.nginxConfig /\ Len(steps) = 7


\* the commands and writes of each step whose failure the step propagates
FatalEvents(step) ==
    CASE step = "CheckPrerequisites" ->
            {Exec("which node", FALSE),
             Exec("which " \o project.packageManager, FALSE)}
      [] step = "Build" ->
            {Exec(project.packageManager \o " install", FALSE),
             Exec(project.packageManager \o " run build", FALSE)}
      [] step = "MaterializeEnvironment" -> {Write(EnvPath, FALSE)}
      [] step = "SetupSupervisor" ->
            {Exec("npm install -g pm2", FALSE), Write(ManifestPath, FALSE),
             Exec("pm2 start ecosystem.config.js", FALSE), Exec("pm2 save", FALSE)}
      [] step = "GenerateManagementScripts" ->
            {Write(RootPath \o "/status.sh", FALSE), Exec("chmod +x status.sh", FALSE),
             Write(RootPath \o "/restart.sh", FALSE), Exec("chmod +x restart.sh", FALSE)}
      [] OTHER -> {}

FatalSteps ==
    {"CheckPrerequisites", "Build", "MaterializeEnvironment", "SetupSupervisor",
     "GenerateManagementScripts"}

LogHas(line) == \E i \in DOMAIN log : log[i] = line

\* C2: when a command or write of a step other than SetupProxy fails, the
\* run is in Failed with an error raised, that failure is the last thing the
\* run did (no command, write or probe follows it), the failing step is the
\* last step started, and neither the success line nor the final report was
\* emitted.
C2_FatalStepHaltsPipeline ==
    \A step \in FatalSteps : \A i \in DOMAIN events :
        ~events[i].ok /\ events[i] \in FatalEvents(step) =>
            /\ pc = "Failed"
            /\ thrown # NoError
            /\ i = Len(events)
            /\ steps # << >> /\ steps[Len(steps)] = step
            /\ ~LogHas(SuccessLine)
            /\ report = << >>

C2_Witness ==
    /\ pc = "Failed" /\ config.nginxConfig
    /\ events # << >> /\ events[Len(events)] = Exec("pm2 save", FALSE)


\* what can fail inside SetupProxy, with the error each failure raises
ProxyFailures ==
    {Exec("which nginx", FALSE), Write(getConfigPath(config), FALSE),
     Write(InstructionsPath, FALSE)}

ProxyError(e) ==
    IF e.kind = "exec" THEN "Nginx installation required" ELSE WriteError(e.arg)

AnyFatalFailure ==
    \E i \in DOMAIN events :
        ~events[i].ok /\ \E step \in FatalSteps : events[i] \in FatalEvents(step)

\* C3: a failure inside SetupProxy (binary absent, routing document or
\* instructions file not writable) is logged as a warning carrying its
\* message and is not raised: right after SetupProxy the pipeline is at
\* GenerateManagementScripts, a run that ends Failed after it failed in a
\* later fatal step, and a finished run in which no fatal step failed is Done
\* with the success line and the report.
C3_ProxyFailureIsWarning ==
    \A i \in DOMAIN events :
        ~events[i].ok /\ events[i] \in ProxyFailures =>
            /\ LogHas(LogLine("warning", "Nginx setup requires manual intervention: "
                                         \o ProxyError(events[i])))
            /\ thrown # ProxyError(events[i])
            /\ Len(steps) >= 5 /\ steps[5] = "SetupProxy"
            /\ Len(steps) = 5 => pc = "GenerateManagementScripts"
            /\ pc = "Failed" =>
                  events[Len(events)] \in FatalEvents("GenerateManagementScripts")
            /\ Terminal /\ ~AnyFatalFailure =>
                  pc = "Done" /\ LogHas(SuccessLine) /\ report # << >>

C3_Witness ==
    /\ pc = "Done"
    /\ \E i \in DOMAIN events : events[i] = Exec("which nginx", FALSE)


WritesTo(path) == {i \in DOMAIN events : events[i].kind = "write" /\ events[i].arg = path}

\* the run wrote the file at path
Written(path) == \E i \in WritesTo(path) : events[i].ok

\* C4: when <root>/.env exists as MaterializeEnvironment runs, the step does
\* not write to that path, the file keeps its contents, and the step succeeds
\* (the pipeline goes on to SetupSupervisor).
C4_ExistingEnvFileUntouched ==
    [][(pc = "MaterializeEnvironment" /\ EnvPath \in DOMAIN files) =>
          /\ files'[EnvPath] = files[EnvPath]
          /\ WritesTo(EnvPath)' = {}
          /\ pc' = "SetupSupervisor"]_vars


Warnings == {i \in DOMAIN log : log[i].level = "warning"}

AutoStartWarnings == {i \in Warnings : log[i].msg = AutoStartWarning}

FreeProbes == {i \in DOMAIN events : events[i].kind = "probe" /\ events[i].answer = "free"}

\* config.autoStart is set and register-autostart failed
AutoStartFailed ==
    config.autoStart /\ \E i \in DOMAIN events : events[i] = Exec("pm2 startup", FALSE)

\* the existence checks whose negative answer is not a failure: the
\* supervisor binary (it is then installed) and the environment-file check
OptionalChecks == {"which pm2", "which test -f " \o EnvPath}

\* every other command and write of the run succeeded
OthersSucceeded ==
    \A i \in DOMAIN events :
        events[i].kind \in {"exec", "write"} /\ ~events[i].ok =>
            events[i].arg \in {"pm2 startup"} \cup OptionalChecks

Issued(cmd) == {i \in DOMAIN events : events[i].kind = "exec" /\ events[i].arg = cmd}

DeleteAll == "pm2 delete all"
LoadManifest == "pm2 start ecosystem.config.js"
PersistList == "pm2 save"
RegisterAutostart == "pm2 startup"

\* C6: supervisor start issues each of its commands at most once and in the
\* order delete-all, load-manifest, persist-process-list, register-autostart:
\* load-manifest directly after delete-all, persist-process-list directly
\* after a load-manifest that succeeded, and register-autostart exactly when
\* config.autoStart is true and persist-process-list succeeded, directly
\* after it.
C6_SupervisorStartOrder ==
    /\ \A cmd \in {DeleteAll, LoadManifest, PersistList, RegisterAutostart} :
          Cardinality(Issued(cmd)) <= 1
    /\ \A j \in Issued(LoadManifest) : j - 1 \in Issued(DeleteAll)
    /\ \A k \in Issued(PersistList) :
          k - 1 \in Issued(LoadManifest) /\ events[k - 1].ok
    /\ \A l \in Issued(RegisterAutostart) :
          l - 1 \in Issued(PersistList) /\ events[l - 1].ok /\ config.autoStart
    /\ (config.autoStart /\ \E k \in Issued(PersistList) : events[k].ok)
          => Issued(RegisterAutostart) # {}

C6_Witness ==
    /\ Issued(RegisterAutostart) # {}
    /\ \E i \in Issued(DeleteAll) : ~events[i].ok

\* C7: a failed delete-all is directly followed by load-manifest, is not the
\* error the run raises, and leaves no trace in the log: for every outcome
\* of the other commands, SetupSupervisor with delete-all failing leaves the
\* same log lines, the same pending error and the same files as with
\* delete-all succeeding.
C7_DeleteFailureIgnored ==
    /\ \A i \in Issued(DeleteAll) :
          ~events[i].ok =>
              /\ i + 1 \in Issued(LoadManifest)
              /\ thrown # ExecaError(DeleteAll)
    /\ pc = "SetupSupervisor" =>
          \A hasPm2, installOk, writeOk, startOk, saveOk, startupOk \in BOOLEAN :
              LET good == setupPM2(Cur, hasPm2, installOk, writeOk, TRUE,
                                   startOk, saveOk, startupOk)
                  bad  == setupPM2(Cur, hasPm2, installOk, writeOk, FALSE,
                                   startOk, saveOk, startupOk)
              IN  bad.log = good.log /\ bad.exc = good.exc /\ bad.files = good.files

C7_Witness ==
    pc = "Done" /\ \E i \in Issued(DeleteAll) : ~events[i].ok


PortWarning(who, port) ==
    LogLine("warning", who \o " port " \o ToString(port)
                       \o " seems to be available (service might not be running)")

PortRunning(who, port) ==
    LogLine("success", who \o " is running on port " \o ToString(port))

\* positions in events of the probes of port with the given answer
Probed(port, answer) ==
    {i \in DOMAIN events : /\ events[i].kind = "probe"
                           /\ events[i].arg = ToString(port)
                           /\ events[i].answer = answer}

AllPorts == ClientPorts \cup ServerPorts

\* C8: VerifyDeployment cannot fail the pipeline: whatever the probes
\* answer, performFinalChecks raises nothing and a run that has run it is
\* Done with no error; the log holds the port warning of an enabled
\* subsystem exactly when the probe of its configured port answered free, and
\* no port warning of a disabled subsystem.
C8_VerifyIsAdvisory ==
    /\ pc = "VerifyDeployment" =>
          \A a, b \in ProbeAnswers : Running(performFinalChecks(Cur, a, b))
    /\ (\E i \in DOMAIN steps : steps[i] = "VerifyDeployment") =>
          /\ pc = "Done" /\ thrown = NoError
          /\ project.hasClient =>
                (LogHas(PortWarning("Client", config.clientPort))
                    <=> Probed(config.clientPort, "free") # {})
          /\ project.hasServer =>
                (LogHas(PortWarning("Server", config.serverPort))
                    <=> Probed(config.serverPort, "free") # {})
          /\ ~project.hasClient => \A p \in AllPorts : ~LogHas(PortWarning("Client", p))
          /\ ~project.hasServer => \A p \in AllPorts : ~LogHas(PortWarning("Server", p))

C8_Witness ==
    /\ pc = "Done"
    /\ Probed(config.clientPort, "free") # {}
    /\ Probed(config.serverPort, "taken") # {}

\* C9: when the probe of a subsystem's port raises an error, the run raises
\* nothing and ends Done, logs no port warning for that subsystem and logs
\* that the subsystem is running on the port.
C9_ProbeErrorMeansBound ==
    /\ Probed(config.clientPort, "error") # {} =>
          /\ pc = "Done" /\ thrown = NoError
          /\ ~LogHas(PortWarning("Client", config.clientPort))
          /\ LogHas(PortRunning("Client", config.clientPort))
    /\ Probed(config.serverPort, "error") # {} =>
          /\ pc = "Done" /\ thrown = NoError
          /\ ~LogHas(PortWarning("Server", config.serverPort))
          /\ LogHas(PortRunning("Server", config.serverPort))

C9_Witness ==
    /\ Probed(config.clientPort, "error") # {}
    /\ Probed(config.serverPort, "error") # {}

\* C10: with hasClient and hasServer both true the generated manifest has
\* exactly two entries, one named <project>-client whose env PORT is
\* config.clientPort and one named <project>-server whose env PORT is
\* config.serverPort, and that is the manifest the run writes.
C10_ManifestHasBothEntries ==
    project.hasClient /\ project.hasServer =>
        LET apps == generateEcosystemConfig(config, project).apps
        IN  /\ Len(apps) = 2
            /\ \E i, j \in 1..2 :
                  /\ i # j
                  /\ apps[i].name = config.projectName \o "-client"
                  /\ apps[i].env.PORT = config.clientPort
                  /\ apps[j].name = config.projectName \o "-server"
                  /\ apps[j].env.PORT = config.serverPort
            /\ Written(ManifestPath) => files[ManifestPath].apps = apps

C10_Witness ==
    /\ project.hasClient /\ project.hasServer
    /\ Written(ManifestPath)
    /\ config.clientPort # DefaultClientPort /\ config.serverPort # DefaultServerPort

Subsystems == {"client", "server"}

Enabled(sub) == IF sub = "client" THEN project.hasClient ELSE project.hasServer

Backend(sub) == sub \o "_backend"

\* the path of the location rule that mounts a subsystem
MountPath(sub) == IF sub = "client" THEN "/" ELSE "/api/"

\* the proxy_pass targets that send a request to a subsystem
ProxyTargets(sub) == {"http://" \o Backend(sub), "http://" \o Backend(sub) \o "/"}

\* positions of the directives of a document that are emitted for a
\* subsystem: its upstream block, its location rule, any rule that passes
\* requests to it
EmittedFor(doc, sub) ==
    {i \in DOMAIN doc :
        \/ doc[i].kind = "upstream" /\ doc[i].name = Backend(sub)
        \/ doc[i].kind = "location" /\ doc[i].name = MountPath(sub)
        \/ doc[i].arg \in ProxyTargets(sub)}

Upstreams(doc) == {i \in DOMAIN doc : doc[i].kind = "upstream"}

\* the location rules that mount a subsystem (the static-asset caching rule
\* is not one of them)
Mounts(doc) ==
    {i \in DOMAIN doc : doc[i].kind = "location" /\ doc[i].name # StaticPattern}

RoutingDocument == generateNginxConfig(config, project)

Manifest == generateEcosystemConfig(config, project)

\* C11: with exactly one subsystem enabled, the manifest has exactly one
\* entry, named after the enabled subsystem and carrying its port, and the
\* routing document has exactly one upstream block and exactly one mounting
\* location rule, both of the enabled subsystem; no directive of the document
\* is emitted for the disabled subsystem or passes requests to it, and no
\* blank or null directive stands in for it; these are the manifest and the
\* document the run writes.
C11_OnlyEnabledSubsystemEmitted ==
    \A on, off \in Subsystems :
        Enabled(on) /\ ~Enabled(off) =>
            /\ Len(Manifest.apps) = 1
            /\ Manifest.apps[1].name = config.projectName \o "-" \o on
            /\ Manifest.apps[1].env.PORT =
                  (IF on = "client" THEN config.clientPort ELSE config.serverPort)
            /\ Cardinality(Upstreams(RoutingDocument)) = 1
            /\ Cardinality(Mounts(RoutingDocument)) = 1
            /\ Upstreams(RoutingDocument) \cup Mounts(RoutingDocument)
                  \subseteq EmittedFor(RoutingDocument, on)
            /\ EmittedFor(RoutingDocument, off) = {}
            /\ \A i \in DOMAIN RoutingDocument : RoutingDocument[i].kind # ""
            /\ Written(ManifestPath) => files[ManifestPath] = Manifest
            /\ Written(getConfigPath(config)) =>
                  files[getConfigPath(config)] = RoutingDocument

C11_Witness ==
    /\ ~project.hasClient /\ project.hasServer
    /\ Written(ManifestPath)
    /\ Written(getConfigPath(config))

\* positions in a document of the location rule mounted at path
LocationAt(doc, path) ==
    {i \in DOMAIN doc : doc[i].kind = "location" /\ doc[i].name = path}

\* C12: with both subsystems enabled the routing document has one location
\* rule for the API prefix and one catch-all location rule, and the API
\* prefix rule of the server comes before the catch-all rule of the client;
\* this holds of the document the run writes.
C12_ApiLocationBeforeCatchAll ==
    project.hasClient /\ project.hasServer =>
        /\ Cardinality(LocationAt(RoutingDocument, "/api/")) = 1
        /\ Cardinality(LocationAt(RoutingDocument, "/")) = 1
        /\ \A i \in LocationAt(RoutingDocument, "/api/") :
              \A j \in LocationAt(RoutingDocument, "/") :
                  /\ i < j
                  /\ RoutingDocument[i].arg \in ProxyTargets("server")
                  /\ RoutingDocument[j].arg \in ProxyTargets("client")
        /\ getConfigPath(config) \in DOMAIN files =>
              LET written == files[getConfigPath(config)]
              IN  \A i \in LocationAt(written, "/api/") :
                      \A j \in LocationAt(written, "/") : i < j

C12_Witness ==
    /\ project.hasClient /\ project.hasServer
    /\ getConfigPath(config) \in DOMAIN files
    /\ LocationAt(files[getConfigPath(config)], "/api/") # {}
    /\ LocationAt(files[getConfigPath(config)], "/") # {}

\* positions in the report of the lines of a set
ReportLines(lines) == {i \in DOMAIN report : report[i] \in lines}

FrontendLine(port) == "Frontend: http://localhost:" \o ToString(port)
BackendLine(port) == "Backend:  http://localhost:" \o ToString(port)
PublicLine(domain) == "Public:   http://" \o domain

FrontendLines == ReportLines({FrontendLine(p) : p \in AllPorts})
BackendLines == ReportLines({BackendLine(p) : p \in AllPorts})
PublicLines == ReportLines({PublicLine(d) : d \in Domains})

\* C14: in Done the report has, for each enabled subsystem, exactly one local
\* URL line, carrying that subsystem's configured port, and no local URL line
\* for a disabled subsystem; it has a Public line, carrying config.domain,
\* exactly when config.domain is not "localhost".
C14_ReportListsEnabledUrls ==
    pc = "Done" =>
        /\ FrontendLines = (IF project.hasClient
                            THEN ReportLines({FrontendLine(config.clientPort)}) ELSE {})
        /\ Cardinality(FrontendLines) = (IF project.hasClient THEN 1 ELSE 0)
        /\ BackendLines = (IF project.hasServer
                           THEN ReportLines({BackendLine(config.serverPort)}) ELSE {})
        /\ Cardinality(BackendLines) = (IF project.hasServer THEN 1 ELSE 0)
        /\ PublicLines = ReportLines({PublicLine(config.domain)})
        /\ Cardinality(PublicLines) = (IF config.domain # "localhost" THEN 1 ELSE 0)

C14_Witness ==
    /\ pc = "Done"
    /\ project.hasClient /\ ~project.hasServer
    /\ config.domain # "localhost"
    /\ PublicLines # {} /\ FrontendLines # {}

CheckSupervisor == "which pm2"
InstallSupervisor == "npm install -g pm2"

\* the commands that control the supervisor daemon
ControlCommands == {DeleteAll, LoadManifest, PersistList, RegisterAutostart}

\* C15: the global install of the supervisor is issued exactly when the
\* check of its binary answered not found, directly after that check and at
\* most once; after a check that found the binary no install is issued in the
\* run; and when the install fails the run is Failed with the install's
\* error, the install is the last thing the run did, the manifest was not
\* written and no supervisor control command was issued.
C15_InstallIffUnresolvable ==
    /\ Cardinality(Issued(InstallSupervisor)) <= 1
    /\ \A i \in Issued(CheckSupervisor) :
          IF events[i].ok THEN Issued(InstallSupervisor) = {}
          ELSE i + 1 \in Issued(InstallSupervisor)
    /\ \A j \in Issued(InstallSupervisor) :
          /\ j - 1 \in Issued(CheckSupervisor) /\ ~events[j - 1].ok
          /\ ~events[j].ok =>
                /\ pc = "Failed" /\ thrown = ExecaError(InstallSupervisor)
                /\ j = Len(events)
                /\ WritesTo(ManifestPath) = {}
                /\ \A cmd \in ControlCommands : Issued(cmd) = {}

C15_Witness ==
    /\ pc = "Failed"
    /\ \E j \in Issued(InstallSupervisor) : ~events[j].ok

\* C16: the manifest is written at most once in a run; load-manifest is
\* issued only after a write of the manifest that completed, and the file
\* then holds exactly the manifest generated from the run's config and
\* topology, with nothing of the manifest an earlier deployment left; when the
\* write fails the run is Failed, load-manifest is not issued, and the file is
\* as it was before the run.
C16_ManifestWrittenBeforeLoad ==
    /\ Cardinality(WritesTo(ManifestPath)) <= 1
    /\ \A j \in Issued(LoadManifest) :
          /\ \E i \in WritesTo(ManifestPath) : i < j /\ events[i].ok
          /\ files[ManifestPath] = Manifest
          /\ files[ManifestPath] # PreviousManifest
    /\ \A i \in WritesTo(ManifestPath) :
          ~events[i].ok =>
              /\ pc = "Failed" /\ thrown = WriteError(ManifestPath)
              /\ Issued(LoadManifest) = {}
              /\ ManifestPath \in DOMAIN files => files[ManifestPath] = PreviousManifest

C16_Witness ==
    /\ Issued(LoadManifest) # {}
    /\ EnvPath \in DOMAIN files /\ files[EnvPath] = OperatorEnv
    /\ files[ManifestPath] = Manifest

CheckProxy == "which nginx"

\* the command lines that install, enable, validate, restart or reload the
\* proxy: the ones the setup instructions and the install hints name
ProxyAdminCommands ==
    {"sudo apt install nginx", "sudo yum install nginx", "brew install nginx",
     "sudo cp " \o getConfigPath(config) \o " /etc/nginx/sites-available/"
         \o config.projectName,
     "sudo ln -s /etc/nginx/sites-available/" \o config.projectName
         \o " /etc/nginx/sites-enabled/",
     "sudo nginx -t", "sudo systemctl restart nginx", "sudo systemctl reload nginx",
     "sudo brew services restart nginx", "nginx -s reload",
     "sudo certbot --nginx -d " \o config.domain}

\* the command lines of the steps other than SetupProxy
PipelineCommands ==
    {"which node", "which " \o project.packageManager,
     project.packageManager \o " install", project.packageManager \o " run build",
     "which test -f " \o EnvPath, CheckSupervisor, InstallSupervisor,
     "chmod +x status.sh", "chmod +x restart.sh"} \cup ControlCommands

\* the commands a run issued
Commands == {events[i].arg : i \in {k \in DOMAIN events : events[k].kind = "exec"}}

\* C17: every command a run issues is a command of another step or the
\* existence check of the proxy binary; the check is issued at most once, and
\* whether it finds the binary or not no command that installs, enables,
\* validates, restarts or reloads the proxy is issued.
C17_ProxyOnlyChecked ==
    /\ Commands \subseteq PipelineCommands \cup {CheckProxy}
    /\ Commands \cap ProxyAdminCommands = {}
    /\ PipelineCommands \cap ProxyAdminCommands = {}
    /\ Cardinality(Issued(CheckProxy)) <= 1
    /\ \A i \in Issued(CheckProxy) :
          \A j \in DOMAIN events :
              j > i /\ events[j].kind = "exec" => events[j].arg \in PipelineCommands

C17_Witness ==
    /\ Terminal
    /\ \E i \in Issued(CheckProxy) : events[i].ok
    /\ Written(InstructionsPath)

\* the logger lines that name a manual install command
InstallHints ==
    {LogLine("info", "Ubuntu/Debian: sudo apt install nginx"),
     LogLine("info", "CentOS/RHEL: sudo yum install nginx"),
     LogLine("info", "macOS: brew install nginx")}

\* C18: when the existence check of the proxy binary answers not found, the
\* run has logged that the proxy is not installed and a manual install
\* command, and neither the routing document nor the setup-instructions file
\* is written in the run.
C18_AbsentProxyAborts ==
    \A i \in Issued(CheckProxy) :
        ~events[i].ok =>
            /\ LogHas(LogLine("warning",
                              "Nginx is not installed. Please install it manually:"))
            /\ \E k \in DOMAIN log : log[k] \in InstallHints
            /\ WritesTo(getConfigPath(config)) = {}
            /\ WritesTo(InstructionsPath) = {}
            /\ getConfigPath(config) \notin DOMAIN files
            /\ InstructionsPath \notin DOMAIN files

\* the config has an email that is not the empty string
HasEmail(cfg) == "email" \in DOMAIN cfg /\ cfg["email"] # ""

\* C19 (under CliSpec): when the deploy command is about to call
\* Deployer.deploy, on the prompt path or on the -y path, a config with ssl
\* true has a non-empty email and a domain other than "localhost".
C19_SslNeedsEmailAndDomain ==
    pc = "Idle" =>
        (config.ssl => HasEmail(config) /\ config.domain # "localhost")

\* the messages of the lines setupNginx and NginxGenerator can log
ProxyMessages ==
    {"Setting up Nginx...", "Nginx already installed",
     "Nginx is not installed. Please install it manually:",
     "Nginx configuration generated at " \o getConfigPath(config),
     "Check nginx-setup.md for manual setup steps"}
    \cup {h.msg : h \in InstallHints}
    \cup {"Nginx setup requires manual intervention: " \o ProxyError(e) :
             e \in ProxyFailures}

\* C20: with config.nginxConfig false SetupProxy is never started: the
\* existence check of the proxy binary is not issued, neither the routing
\* document nor the instructions file is written or present, no line of the
\* proxy step (its warning included) is logged, and the step started after
\* SetupSupervisor is GenerateManagementScripts.
C20_ProxySkippedWhenDisabled ==
    ~config.nginxConfig =>
        /\ pc # "SetupProxy"
        /\ \A i \in DOMAIN steps : steps[i] # "SetupProxy"
        /\ Issued(CheckProxy) = {}
        /\ WritesTo(getConfigPath(config)) = {} /\ WritesTo(InstructionsPath) = {}
        /\ getConfigPath(config) \notin DOMAIN files
        /\ InstructionsPath \notin DOMAIN files
        /\ \A k \in DOMAIN log : log[k].msg \notin ProxyMessages
        /\ \A i \in DOMAIN steps :
              steps[i] = "SetupSupervisor" =>
                  IF i < Len(steps) THEN steps[i + 1] = "GenerateManagementScripts"
                  ELSE pc \in {"GenerateManagementScripts", "Failed"}

C20_Witness ==
    /\ ~config.nginxConfig
    /\ pc = "Done"
    /\ Len(steps) = 6

\* the error a fatal step raises when the command or write e fails
StepError(e) ==
    IF e.kind = "write" THEN WriteError(e.arg)
    ELSE IF e.arg = "which node" THEN "Node.js is not installed"
    ELSE IF e.arg = "which " \o project.packageManager
    THEN project.packageManager \o " is not installed"
    ELSE ExecaError(e.arg)

\* C21: when a command or write of a fatal step fails (runtime or package
\* manager not found, install or build failing, manifest load failing, and
\* the others), the error deploy raises to its caller is the error the step
\* raised, message unchanged; the log line of the catch block carries the
\* same message, and so does the line PM2Generator.start logs for a failed
\* load-manifest.
C21_ErrorRaisedVerbatim ==
    /\ \A i \in DOMAIN events :
          ~events[i].ok /\ (\E step \in FatalSteps : events[i] \in FatalEvents(step)) =>
              /\ thrown = StepError(events[i])
              /\ LogHas(LogLine("error", "Deployment failed: " \o StepError(events[i])))
    /\ \A i \in Issued(LoadManifest) :
          ~events[i].ok =>
              /\ thrown = ExecaError(LoadManifest)
              /\ LogHas(LogLine("error", "Failed to start PM2 applications: "
                                         \o ExecaError(LoadManifest)))
    /\ pc = "Failed" => thrown # NoError /\ thrown # "Deployment failed"

C21_Witness ==
    /\ pc = "Failed"
    /\ events # << >> /\ events[Len(events)] = Exec(LoadManifest, FALSE)

DarwinConfigPath == "/usr/local/etc/nginx/servers/" \o config.projectName \o ".conf"
SitesAvailablePath == "/etc/nginx/sites-available/" \o config.projectName

\* C22: the write that follows a positive check of the proxy binary is the
\* write of the routing document, and it goes to the darwin path exactly when
\* the OS family is darwin and to /etc/nginx/sites-available/<project> on
\* linux and on windows; the other of the two paths is never written, and the
\* file written holds the routing document.
C22_ConfigPathByOS ==
    LET here == IF os = "darwin" THEN DarwinConfigPath ELSE SitesAvailablePath
        there == IF os = "darwin" THEN SitesAvailablePath ELSE DarwinConfigPath
    IN  /\ \A i \in Issued(CheckProxy) :
              events[i].ok =>
                  /\ i + 1 \in WritesTo(here)
                  /\ events[i + 1].ok => files[here] = RoutingDocument
        /\ WritesTo(there) = {}
        /\ there \notin DOMAIN files
        /\ \A i \in WritesTo(here) : i - 1 \in Issued(CheckProxy)

C22_Witness ==
    /\ os = "windows"
    /\ Written(SitesAvailablePath)
    /\ files[SitesAvailablePath] = RoutingDocument

\* the existence checks of CheckPrerequisites
PrerequisiteChecks == {"which node", "which " \o project.packageManager}

\* the file systems a run can start from
InitialFiles ==
    {<< >>, [p \in {EnvPath, ManifestPath} |->
                IF p = EnvPath THEN OperatorEnv ELSE PreviousManifest]}

\* C23: when the check of node or of the package manager answers not found,
\* the run is Failed in CheckPrerequisites with that check as the last thing
\* it did: every command issued is one of the two existence checks (the
\* second is not issued when node is missing), nothing was written, the file
\* system is as the run found it and the supervisor's process set is
\* untouched.
C23_PrerequisitesFailFirst ==
    \A i \in DOMAIN events :
        ~events[i].ok /\ events[i].kind = "exec" /\ events[i].arg \in PrerequisiteChecks =>
            /\ pc = "Failed" /\ thrown = StepError(events[i])
            /\ steps = <<"CheckPrerequisites">>
            /\ i = Len(events)
            /\ events[i].arg = "which node" => i = 1
            /\ \A j \in DOMAIN events :
                  events[j].kind = "exec" /\ events[j].arg \in PrerequisiteChecks
            /\ files \in InitialFiles
            /\ procs = PreviousProcs

C23_Witness ==
    /\ pc = "Failed"
    /\ Len(events) = 2
    /\ events[2] = Exec("which " \o project.packageManager, FALSE)
    /\ files # << >>

\* positions in events of the events of a kind
OfKind(kind) == {i \in DOMAIN events : events[i].kind = kind}

\* positions in events of the probes of a port
ProbesOf(port) == {i \in OfKind("probe") : events[i].arg = ToString(port)}

VerifyStarted == \E i \in DOMAIN steps : steps[i] = "VerifyDeployment"

\* C24: a run waits at most once, for the settle delay, and probes only after
\* that wait; before VerifyDeployment it neither waits nor probes; a run that
\* ran VerifyDeployment probed the configured port of each enabled subsystem
\* exactly once (client before server, nothing retried, the probes being the
\* last things the run did) and probed no other port; for a disabled
\* subsystem no port is probed and no port line is logged.
C24_ProbeOncePerEnabledSubsystem ==
    /\ Cardinality(OfKind("sleep")) <= 1
    /\ \A j \in OfKind("sleep") : events[j].arg = ToString(SettleDelay)
    /\ \A i \in OfKind("probe") : \E j \in OfKind("sleep") : j < i
    /\ ~VerifyStarted => OfKind("sleep") = {} /\ OfKind("probe") = {}
    /\ VerifyStarted =>
          /\ Cardinality(OfKind("sleep")) = 1
          /\ Cardinality(ProbesOf(config.clientPort)) = (IF project.hasClient THEN 1 ELSE 0)
          /\ Cardinality(ProbesOf(config.serverPort)) = (IF project.hasServer THEN 1 ELSE 0)
          /\ OfKind("probe") = ProbesOf(config.clientPort) \cup ProbesOf(config.serverPort)
          /\ \A i \in ProbesOf(config.clientPort) :
                \A j \in ProbesOf(config.serverPort) : i < j
          /\ \A j \in OfKind("sleep") : \A k \in DOMAIN events :
                k > j => events[k].kind = "probe"
    /\ ~project.hasClient =>
          \A p \in AllPorts : /\ ~LogHas(PortWarning("Client", p))
                              /\ ~LogHas(PortRunning("Client", p))
    /\ ~project.hasServer =>
          \A p \in AllPorts : /\ ~LogHas(PortWarning("Server", p))
                              /\ ~LogHas(PortRunning("Server", p))

C24_Witness ==
    /\ pc = "Done"
    /\ project.hasClient /\ ~project.hasServer
    /\ Cardinality(OfKind("probe")) = 1
    /\ config.clientPort # DefaultClientPort

NoSubsystemLine == LogLine("error", "No client or server found in apps/ directory.")

\* C25 (under CliSpec): the deploy command calls Deployer.deploy only with a
\* project that has a client or a server, so that the manifest generated from
\* what it hands over has at least one entry and the routing document at
\* least one upstream block and one mounting location rule; when the detector
\* finds neither subsystem it returns no project and the command exits with
\* no config built, no command issued and no file written.
C25_NoEmptyTopologyDeployed ==
    /\ pc \in {"Configure", "Idle"} =>
          /\ project # NullProject
          /\ project.hasClient \/ project.hasServer
    /\ pc = "Idle" =>
          /\ Len(Manifest.apps) >= 1
          /\ Upstreams(RoutingDocument) # {}
          /\ Mounts(RoutingDocument) # {}
    /\ LogHas(NoSubsystemLine) =>
          /\ pc = "Exited" /\ project = NullProject /\ config = NoConfig
          /\ events = << >> /\ files = << >>
    /\ pc = "Exited" => project = NullProject /\ config = NoConfig

C25_Witness ==
    pc = "Exited" /\ LogHas(NoSubsystemLine)

\* delete-all succeeded and the load-manifest that followed it failed
LoadFailedAfterDelete ==
    \E i \in Issued(DeleteAll) :
        events[i].ok /\ i + 1 \in Issued(LoadManifest) /\ ~events[i + 1].ok

\* C26: when delete-all succeeded and the following load-manifest failed,
\* the run is Failed with the load's error and did nothing after it: the
\* supervisor holds no process, neither the earlier set nor one of the
\* manifest, while the manifest written by the step is on disk with its
\* generated content and the environment file, when the run wrote it, is on
\* disk with the content written.
C26_NoRollback ==
    LoadFailedAfterDelete =>
        /\ pc = "Failed" /\ thrown = ExecaError(LoadManifest)
        /\ events[Len(events)] = Exec(LoadManifest, FALSE)
        /\ procs = {}
        /\ Written(ManifestPath)
        /\ ManifestPath \in DOMAIN files /\ files[ManifestPath] = Manifest
        /\ Written(EnvPath) =>
              EnvPath \in DOMAIN files /\ files[EnvPath] = envContent(config)

C26_Witness ==
    /\ LoadFailedAfterDelete
    /\ Written(EnvPath)
    /\ procs = {}

\* the subsystems whose upstream a proxy_pass of the document refers to
Referenced(doc) ==
    {sub \in Subsystems :
        \E i \in DOMAIN doc : doc[i].kind = "location" /\ doc[i].arg \in ProxyTargets(sub)}

\* the subsystems whose upstream block the document defines
Defined(doc) ==
    {sub \in Subsystems :
        \E i \in DOMAIN doc : doc[i].kind = "upstream" /\ doc[i].name = Backend(sub)}

\* every location rule of the document has no proxy_pass or one that names
\* the upstream of a subsystem, and every upstream so named is defined
UpstreamsResolve(doc) ==
    /\ \A i \in DOMAIN doc :
          doc[i].kind = "location" =>
              doc[i].arg \in {""} \cup ProxyTargets("client") \cup ProxyTargets("server")
    /\ Referenced(doc) \subseteq Defined(doc)

\* C27: for each of the four combinations of hasClient and hasServer, every
\* upstream a proxy_pass of the generated routing document names (in the
\* client location, the server location and the static-asset caching rule)
\* is defined by an upstream block of that document; so it is in the
\* document the run writes.
C27_ProxyPassUpstreamsDefined ==
    /\ \A hasClient, hasServer \in BOOLEAN :
          UpstreamsResolve(generateNginxConfig(config,
              [project EXCEPT !.hasClient = hasClient, !.hasServer = hasServer]))
    /\ Written(getConfigPath(config)) => UpstreamsResolve(files[getConfigPath(config)])

C27_Witness ==
    /\ ~project.hasClient
    /\ Written(getConfigPath(config))
    /\ Referenced(files[getConfigPath(config)]) = {"server"}
    /\ \E i \in DOMAIN RoutingDocument :
          RoutingDocument[i].name = StaticPattern /\ RoutingDocument[i].arg = ""

FollowInstructionsLine == "2. Follow nginx-setup.md for Nginx configuration"

\* C28: whenever the final report tells the operator to follow
\* nginx-setup.md, the run wrote that file and it is on disk.
C28_InstructionsReferencedOnlyIfWritten ==
    ReportLines({FollowInstructionsLine}) # {} =>
        Written(InstructionsPath) /\ InstructionsPath \in DOMAIN files

\* C29 (under FairSpec): every run eventually reaches a terminal state; in
\* Done the success line and the report were emitted and no error was raised,
\* in Failed an error was raised and neither the success line nor the report
\* was emitted; and a run in a terminal state stays as it is, so that it
\* never reaches the other one.
C29_TerminatesInOneTerminalState ==
    /\ <>Terminal
    /\ [](pc = "Done" => thrown = NoError /\ LogHas(SuccessLine) /\ report # << >>)
    /\ [](pc = "Failed" => thrown # NoError /\ ~LogHas(SuccessLine) /\ report = << >>)
    /\ [][Terminal => UNCHANGED vars]_vars

C29_Witness ==
    /\ pc = "Failed" /\ thrown # NoError
    /\ steps[Len(steps)] = "GenerateManagementScripts"
    /\ \E i \in Issued(CheckProxy) : ~events[i].ok

====
